---------------------------- MODULE Spec2Model ----------------------------
(***************************************************************************)
(* A model of planner-gui.py: the ToDoList task store (a Python list of    *)
(* dicts persisted as JSON) and the ToDoApp window that drives it.         *)
(*                                                                         *)
(* Text is a sequence of one-character strings.  A Python value is a       *)
(* tagged tuple: <<"str", text>>, <<"bool", b>> or <<"None">>.  A dict is  *)
(* a function from key names to values.  An element of the task list is a  *)
(* Python object: [oid |-> its identity, d |-> the dict].                  *)
(***************************************************************************)
EXTENDS Integers, Sequences, FiniteSets, TLC

VARIABLES
    tasks,        \* ToDoList.tasks
    fs,           \* the file system: path -> file content (text), existing files only
    err,          \* the exception the last store call let out ("none" if none)
    snap,         \* history, kept when the store is driven directly:
                  \* path -> the task values handed to the last save at path
    pc,           \* "store": store driven directly; "init"/"running": the window
    task_input,   \* QLineEdit holding the title
    desc_input,   \* QLineEdit holding the description
    date_input,   \* QDateEdit holding the due date
    rows,         \* the item texts of the QListWidget task_list
    selected,     \* the selected row of task_list, -1 when none
    mutated,      \* history: a window handler has changed the store since startup
    lastOp        \* history: the last operation or handler and what it did

vars == <<tasks, fs, err, snap, pc, task_input, desc_input, date_input,
          rows, selected, mutated, lastOp>>

gui == <<task_input, desc_input, date_input, rows, selected, mutated>>

--------------------------------------------------------------------------
(* Bounds *)

\* longest task list of the list-operation specification
MaxLen == 3
\* longest task list of the persistence specification
MaxFileLen == 2
\* longest task list of the window specification
MaxRows == 2

--------------------------------------------------------------------------
(* Python values *)

PyStr(s) == <<"str", s>>
PyBool(b) == <<"bool", b>>
PyNone == <<"None">>

IsStr(v) == v[1] = "str"
IsBool(v) == v[1] = "bool"

\* truthiness, as `if title:` and `if task["completed"]` test it
Truthy(v) ==
    CASE IsStr(v) -> v[2] # <<>>
      [] IsBool(v) -> v[2]
      [] OTHER -> FALSE

Digit(n) == <<"0", "1", "2", "3", "4", "5", "6", "7", "8", "9">>[n + 1]

RECURSIVE IntToStr(_)
\* str(n) for n >= 0
IntToStr(n) == IF n < 10 THEN <<Digit(n)>> ELSE IntToStr(n \div 10) \o <<Digit(n % 10)>>

\* str(v), as an f-string field formats it
PyToStr(v) ==
    CASE IsStr(v) -> v[2]
      [] IsBool(v) -> IF v[2] THEN <<"T", "r", "u", "e">> ELSE <<"F", "a", "l", "s", "e">>
      [] OTHER -> <<"N", "o", "n", "e">>

\* dict.get(key, default)
DictGet(d, k, default) == IF k \in DOMAIN d THEN d[k] ELSE default

\* the list the caller sees: the dicts, in order
Values(ts) == [i \in 1..Len(ts) |-> ts[i].d]

Oids(ts) == {ts[i].oid : i \in 1..Len(ts)}

\* the identities of n newly allocated objects, none of them alive in ts
RECURSIVE FreshOids(_, _)
FreshOids(used, n) ==
    IF n = 0 THEN <<>>
    ELSE LET o == CHOOSE k \in 1..(Cardinality(used) + 1) : k \notin used
         IN <<o>> \o FreshOids(used \cup {o}, n - 1)

--------------------------------------------------------------------------
(* json.dump / json.load, on the values the store holds *)

KeyOrder == <<"title", "description", "completed", "due_date">>

KeyChars(k) ==
    CASE k = "title" -> <<"t", "i", "t", "l", "e">>
      [] k = "description" -> <<"d", "e", "s", "c", "r", "i", "p", "t", "i", "o", "n">>
      [] k = "completed" -> <<"c", "o", "m", "p", "l", "e", "t", "e", "d">>
      [] k = "due_date" -> <<"d", "u", "e", "_", "d", "a", "t", "e">>

KeyOfChars(cs) == CHOOSE k \in {KeyOrder[i] : i \in 1..Len(KeyOrder)} : KeyChars(k) = cs

\* one character inside a JSON string literal
EscapeChar(c) ==
    CASE c = "\"" -> <<"\\", "\"">>
      [] c = "\\" -> <<"\\", "\\">>
      [] c = "\n" -> <<"\\", "n">>
      [] OTHER -> <<c>>

\* the character an escape sequence \c stands for
UnescapeChar(c) == IF c = "n" THEN "\n" ELSE c

RECURSIVE EscapeText(_)
EscapeText(s) == IF s = <<>> THEN <<>> ELSE EscapeChar(Head(s)) \o EscapeText(Tail(s))

EncodeStr(s) == <<"\"">> \o EscapeText(s) \o <<"\"">>

EncodeValue(v) ==
    CASE IsStr(v) -> EncodeStr(v[2])
      [] IsBool(v) -> IF v[2] THEN <<"t", "r", "u", "e">> ELSE <<"f", "a", "l", "s", "e">>
      [] OTHER -> <<"n", "u", "l", "l">>

RECURSIVE EncodeMembers(_, _, _)
\* the members of dict d from key number i on; first: nothing written yet
EncodeMembers(d, i, first) ==
    IF i > Len(KeyOrder) THEN <<>>
    ELSE IF KeyOrder[i] \notin DOMAIN d THEN EncodeMembers(d, i + 1, first)
    ELSE (IF first THEN <<>> ELSE <<",", " ">>)
         \o EncodeStr(KeyChars(KeyOrder[i])) \o <<":", " ">> \o EncodeValue(d[KeyOrder[i]])
         \o EncodeMembers(d, i + 1, FALSE)

EncodeDict(d) == <<"{">> \o EncodeMembers(d, 1, TRUE) \o <<"}">>

RECURSIVE EncodeItems(_, _)
EncodeItems(ds, i) ==
    IF i > Len(ds) THEN <<>>
    ELSE (IF i = 1 THEN <<>> ELSE <<",", " ">>) \o EncodeDict(ds[i]) \o EncodeItems(ds, i + 1)

\* json.dump of a list of dicts
json_dump(ds) == <<"[">> \o EncodeItems(ds, 1) \o <<"]">>

RECURSIVE SkipWs(_, _)
SkipWs(s, i) == IF i <= Len(s) /\ s[i] = " " THEN SkipWs(s, i + 1) ELSE i

RECURSIVE ScanStr(_, _, _)
\* the rest of a string literal, from position i (after the opening quote)
ScanStr(s, i, acc) ==
    IF s[i] = "\"" THEN [val |-> acc, next |-> i + 1]
    ELSE IF s[i] = "\\" THEN ScanStr(s, i + 2, Append(acc, UnescapeChar(s[i + 1])))
    ELSE ScanStr(s, i + 1, Append(acc, s[i]))

ParseValue(s, i) ==
    CASE s[i] = "\"" -> LET r == ScanStr(s, i + 1, <<>>) IN [val |-> PyStr(r.val), next |-> r.next]
      [] s[i] = "t" -> [val |-> PyBool(TRUE), next |-> i + 4]
      [] s[i] = "f" -> [val |-> PyBool(FALSE), next |-> i + 5]
      [] s[i] = "n" -> [val |-> PyNone, next |-> i + 4]

RECURSIVE ParseMembers(_, _, _)
\* "key": value pairs up to the closing brace; d: the pairs read so far
ParseMembers(s, i, d) ==
    LET k  == ScanStr(s, i + 1, <<>>)
        c  == SkipWs(s, k.next)
        v  == ParseValue(s, SkipWs(s, c + 1))
        d2 == (KeyOfChars(k.val) :> v.val) @@ d
        e  == SkipWs(s, v.next)
    IN IF s[e] = "," THEN ParseMembers(s, SkipWs(s, e + 1), d2)
       ELSE [val |-> d2, next |-> e + 1]

ParseDict(s, i) ==
    LET j == SkipWs(s, i + 1)
    IN IF s[j] = "}" THEN [val |-> <<>>, next |-> j + 1] ELSE ParseMembers(s, j, <<>>)

RECURSIVE ParseItems(_, _, _)
ParseItems(s, i, acc) ==
    LET o == ParseDict(s, i)
        e == SkipWs(s, o.next)
    IN IF s[e] = "," THEN ParseItems(s, SkipWs(s, e + 1), Append(acc, o.val))
       ELSE Append(acc, o.val)

\* json.load of a file that holds a list of dicts
json_load(s) ==
    LET j == SkipWs(s, 2)
    IN IF s[j] = "]" THEN <<>> ELSE ParseItems(s, j, <<>>)

--------------------------------------------------------------------------
(* Python list primitives *)

\* the 1-based position list[i] denotes, 0 when list[i] raises IndexError
PyIndex(n, i) ==
    IF 0 <= i /\ i < n THEN i + 1
    ELSE IF i < 0 /\ 0 - i <= n THEN n + i + 1
    ELSE 0

\* list.pop at 1-based position p
RemoveAt(ts, p) == SubSeq(ts, 1, p - 1) \o SubSeq(ts, p + 1, Len(ts))

\* list[p]["completed"] = v at 1-based position p: the dict is updated in place
SetCompleted(ts, p, v) == [ts EXCEPT ![p].d = [@ EXCEPT !["completed"] = v]]

--------------------------------------------------------------------------
(* ToDoList *)

DefaultFile == <<"t", "a", "s", "k", "s", ".", "j", "s", "o", "n">>

\* ToDoList.__init__
todo_new == <<>>

\* ToDoList.add_task
add_task(ts, title, description, due_date) ==
    Append(ts, [oid |-> FreshOids(Oids(ts), 1)[1],
                d |-> [title |-> title, description |-> description,
                       completed |-> PyBool(FALSE), due_date |-> due_date]])

\* ToDoList.view_tasks
view_tasks(ts) == Values(ts)

\* a faulty mark_completed: the flag is flipped, not set
mark_completed_Toggle(ts, task_index) ==
    IF 0 <= task_index /\ task_index < Len(ts)
    THEN LET p == PyIndex(Len(ts), task_index)
         IN IF p = 0 THEN [tasks |-> ts, err |-> "IndexError"]
            ELSE [tasks |-> SetCompleted(ts, p, PyBool(~Truthy(ts[p].d["completed"]))),
                  err |-> "none"]
    ELSE [tasks |-> ts, err |-> "none"]

\* a faulty mark_completed: the index is taken as 1-based, tasks[task_index - 1]
mark_completed_OffByOne(ts, task_index) ==
    IF 0 <= task_index /\ task_index < Len(ts)
    THEN LET p == PyIndex(Len(ts), task_index - 1)
         IN IF p = 0 THEN [tasks |-> ts, err |-> "IndexError"]
            ELSE [tasks |-> SetCompleted(ts, p, PyBool(TRUE)), err |-> "none"]
    ELSE [tasks |-> ts, err |-> "none"]

\* ToDoList.mark_completed: the new list and the exception let out
mark_completed(ts, task_index) ==
    IF 0 <= task_index /\ task_index < Len(ts)
    THEN LET p == PyIndex(Len(ts), task_index)
         IN IF p = 0 THEN [tasks |-> ts, err |-> "IndexError"]
            ELSE [tasks |-> SetCompleted(ts, p, PyBool(TRUE)), err |-> "none"]
    ELSE [tasks |-> ts, err |-> "none"]

\* a faulty delete_task: the lower bound of the range test is missing
delete_task_NoLowerBound(ts, task_index) ==
    IF task_index < Len(ts)
    THEN LET p == PyIndex(Len(ts), task_index)
         IN IF p = 0 THEN [tasks |-> ts, err |-> "IndexError"]
            ELSE [tasks |-> RemoveAt(ts, p), err |-> "none"]
    ELSE [tasks |-> ts, err |-> "none"]

\* a faulty delete_task: pop() without the index removes the last task
delete_task_PopLast(ts, task_index) ==
    IF 0 <= task_index /\ task_index < Len(ts)
    THEN [tasks |-> RemoveAt(ts, Len(ts)), err |-> "none"]
    ELSE [tasks |-> ts, err |-> "none"]

\* ToDoList.delete_task: the new list and the exception let out
delete_task(ts, task_index) ==
    IF 0 <= task_index /\ task_index < Len(ts)
    THEN LET p == PyIndex(Len(ts), task_index)
         IN IF p = 0 THEN [tasks |-> ts, err |-> "IndexError"]
            ELSE [tasks |-> RemoveAt(ts, p), err |-> "none"]
    ELSE [tasks |-> ts, err |-> "none"]

\* a faulty save_tasks: the file is opened with "a" and the dump appended
save_tasks_Append(ts, files, filename) ==
    (filename :> (IF filename \in DOMAIN files THEN files[filename] ELSE <<>>)
                 \o json_dump(Values(ts))) @@ files

\* ToDoList.save_tasks: the file system after open(filename, "w") and json.dump
save_tasks(ts, files, filename) == (filename :> json_dump(Values(ts))) @@ files

\* the list json.load builds from the file, as new objects beside those of ts
LoadedList(ts, text) ==
    LET ds == json_load(text)
        os == FreshOids(Oids(ts), Len(ds))
    IN [i \in 1..Len(ds) |-> [oid |-> os[i], d |-> ds[i]]]

\* a faulty load_tasks: no except clause, a missing file raises
load_tasks_NoExcept(ts, files, filename) ==
    IF filename \in DOMAIN files
    THEN [tasks |-> LoadedList(ts, files[filename]), err |-> "none"]
    ELSE [tasks |-> ts, err |-> "FileNotFoundError"]

\* ToDoList.load_tasks: the new list and the exception let out;
\* FileNotFoundError is caught and gives []
load_tasks(ts, files, filename) ==
    IF filename \in DOMAIN files
    THEN [tasks |-> LoadedList(ts, files[filename]), err |-> "none"]
    ELSE [tasks |-> <<>>, err |-> "none"]

--------------------------------------------------------------------------
(* The store driven directly, as a library *)

NoPath == <<>>
\* what an operation did: idx is the index handed to mark or delete, n the
\* length of the list before it, path the file of a save or load
Op(op, idx, n, path) ==
    [op |-> op, idx |-> idx, n |-> n, path |-> path,
     called |-> FALSE, saved |-> FALSE, warned |-> FALSE]

StoreDate == <<"2", "0", "2", "5", "-", "0", "1", "-", "1", "0">>

\* the argument lists add_task is called with: the defaults, and text that
\* JSON has to escape
StoreArgs ==
    { <<PyStr(<<"a">>), PyStr(<<>>), PyNone>>,
      <<PyStr(<<"\"", "b">>), PyStr(<<"\\", "\n">>), PyStr(StoreDate)>> }

OtherFile == <<"b", ".", "j", "s", "o", "n">>

StoreInitCommon ==
    /\ tasks = todo_new
    /\ err = "none"
    /\ snap = <<>>
    /\ pc = "store"
    /\ task_input = <<>>
    /\ desc_input = <<>>
    /\ date_input = [y |-> 2025, m |-> 1, d |-> 10]
    /\ rows = <<>>
    /\ selected = -1
    /\ mutated = FALSE
    /\ lastOp = Op("new", 0, 0, NoPath)

\* the indices mark and delete are called with: every valid one, and invalid
\* ones on both sides
Indices(ts) == (0 - 2)..(Len(ts) + 1)
ValidIndices(ts) == 0..(Len(ts) - 1)

StoreAdd(bound) ==
    \E a \in StoreArgs :
        /\ pc = "store"
        /\ Len(tasks) < bound
        /\ tasks' = add_task(tasks, a[1], a[2], a[3])
        /\ err' = "none"
        /\ lastOp' = Op("add", 0, 0, NoPath)
        /\ UNCHANGED <<fs, snap, pc, gui>>

StoreMark(idxs) ==
    \E i \in idxs :
        /\ pc = "store"
        /\ tasks' = mark_completed(tasks, i).tasks
        /\ err' = mark_completed(tasks, i).err
        /\ lastOp' = Op("mark", i, Len(tasks), NoPath)
        /\ UNCHANGED <<fs, snap, pc, gui>>

StoreDelete(idxs) ==
    \E i \in idxs :
        /\ pc = "store"
        /\ tasks' = delete_task(tasks, i).tasks
        /\ err' = delete_task(tasks, i).err
        /\ lastOp' = Op("delete", i, Len(tasks), NoPath)
        /\ UNCHANGED <<fs, snap, pc, gui>>

StoreSave ==
    \E p \in {DefaultFile} :
        /\ pc = "store"
        /\ fs' = save_tasks(tasks, fs, p)
        /\ snap' = (p :> Values(tasks)) @@ snap
        /\ err' = "none"
        /\ lastOp' = Op("save", 0, 0, p)
        /\ UNCHANGED <<tasks, pc, gui>>

StoreLoad ==
    \E p \in {DefaultFile, OtherFile} :
        /\ pc = "store"
        /\ tasks' = load_tasks(tasks, fs, p).tasks
        /\ err' = load_tasks(tasks, fs, p).err
        /\ lastOp' = Op("load", 0, Len(tasks), p)
        /\ UNCHANGED <<fs, snap, pc, gui>>

\* a fresh ToDoList()
StoreNew ==
    /\ pc = "store"
    /\ tasks' = todo_new
    /\ err' = "none"
    /\ lastOp' = Op("new", 0, 0, NoPath)
    /\ UNCHANGED <<fs, snap, pc, gui>>

\* list operations only
OpsInit == StoreInitCommon /\ fs = <<>>
OpsNext == StoreAdd(MaxLen) \/ StoreMark(Indices(tasks)) \/ StoreDelete(Indices(tasks))
OpsSpec == OpsInit /\ [][OpsNext]_vars

\* persistence
FileInit == StoreInitCommon /\ fs = <<>>
FileNext == StoreAdd(MaxFileLen) \/ StoreMark(ValidIndices(tasks)) \/ StoreSave \/ StoreLoad \/ StoreNew
FileSpec == FileInit /\ [][FileNext]_vars

--------------------------------------------------------------------------
(* ToDoApp *)

RECURSIVE Pad(_, _)
\* digits s padded with zeros on the left to width w
Pad(s, w) == IF Len(s) >= w THEN s ELSE Pad(<<"0">> \o s, w)

\* QDate.toString("yyyy-MM-dd")
DateToString(q) ==
    Pad(IntToStr(q.y), 4) \o <<"-">> \o Pad(IntToStr(q.m), 2) \o <<"-">> \o Pad(IntToStr(q.d), 2)

Done == <<"D", "o", "n", "e">>
NotDone == <<"N", "o", "t", " ", "D", "o", "n", "e">>
NoDueDate == <<"N", "o", " ", "d", "u", "e", " ", "d", "a", "t", "e">>
DueLabel == <<"\n", " ", "D", "u", "e", ":", " ">>

\* the QListWidgetItem update_task_list builds for task number idx (from 0)
ItemOf(idx, task) ==
    LET status   == IF Truthy(task["completed"]) THEN Done ELSE NotDone
        due_date == DictGet(task, "due_date", PyStr(NoDueDate))
    IN [text |-> IntToStr(idx + 1) \o <<".", " ">> \o PyToStr(task["title"])
                 \o <<" ", "-", " ">> \o status
                 \o <<"\n", " ">> \o PyToStr(task["description"])
                 \o DueLabel \o PyToStr(due_date),
        fg   |-> IF ~Truthy(task["completed"]) THEN "red" ELSE "default"]

\* ToDoApp.update_task_list: the items of task_list after clear() and the loop
update_task_list(ts) == [i \in 1..Len(ts) |-> ItemOf(i - 1, view_tasks(ts)[i])]

Today == [y |-> 2025, m |-> 1, d |-> 10]

OtherDay == [y |-> 2025, m |-> 12, d |-> 3]

\* what the user leaves in the title, description and date widgets: with and
\* without a title, with text that JSON has to escape
Forms ==
    { <<<<>>, <<>>, Today>>,
      <<<<>>, <<"\\">>, OtherDay>>,
      <<<<"a", "\"">>, <<>>, Today>>,
      <<<<"b">>, <<"\\">>, OtherDay>> }

\* the dicts of tasks.json left by an earlier run or by another user of the store
OldA ==
    [title |-> PyStr(<<"a">>), description |-> PyStr(<<>>),
     completed |-> PyBool(FALSE), due_date |-> PyNone]
OldB ==
    [title |-> PyStr(<<"\"", "b">>), description |-> PyStr(<<"\\", "\n">>),
     completed |-> PyBool(TRUE), due_date |-> PyStr(StoreDate)]

OldLists == {<<>>, <<OldA>>, <<OldB, OldA>>}

Handler(op, idx, n, called, saved, warned) ==
    [op |-> op, idx |-> idx, n |-> n, path |-> NoPath,
     called |-> called, saved |-> saved, warned |-> warned]

\* before ToDoApp() is constructed: tasks.json is absent or holds a saved list
Init ==
    /\ tasks = <<>>
    /\ \/ fs = <<>>
       \/ \E ds \in OldLists : fs = (DefaultFile :> json_dump(ds))
    /\ err = "none"
    /\ snap = <<>>
    /\ pc = "init"
    /\ task_input = <<>>
    /\ desc_input = <<>>
    /\ date_input = Today
    /\ rows = <<>>
    /\ selected = -1
    /\ mutated = FALSE
    /\ lastOp = Handler("none", 0, 0, FALSE, FALSE, FALSE)

\* ToDoApp.__init__ and initUI
Startup ==
    /\ pc = "init"
    /\ tasks' = load_tasks(todo_new, fs, DefaultFile).tasks
    /\ err' = load_tasks(todo_new, fs, DefaultFile).err
    /\ task_input' = <<>>
    /\ desc_input' = <<>>
    /\ date_input' = Today
    /\ rows' = update_task_list(load_tasks(todo_new, fs, DefaultFile).tasks)
    /\ selected' = -1
    /\ pc' = "running"
    /\ lastOp' = Handler("startup", 0, 0, FALSE, FALSE, FALSE)
    /\ UNCHANGED <<fs, snap, mutated>>

\* the user edits one of the three input widgets
EditInput ==
    /\ pc = "running"
    /\ \E f \in Forms :
          /\ f # <<task_input, desc_input, date_input>>
          /\ task_input' = f[1]
          /\ desc_input' = f[2]
          /\ date_input' = f[3]
    /\ lastOp' = Handler("input", 0, 0, FALSE, FALSE, FALSE)
    /\ UNCHANGED <<tasks, fs, err, snap, pc, rows, selected, mutated>>

\* the user clicks a row of task_list
SelectRow ==
    /\ pc = "running"
    /\ \E r \in 0..(Len(rows) - 1) : selected' = r
    /\ lastOp' = Handler("input", 0, 0, FALSE, FALSE, FALSE)
    /\ UNCHANGED <<tasks, fs, err, snap, pc, task_input, desc_input, date_input,
                   rows, mutated>>

\* a faulty add_task slot: the title is not tested
AppAddTask_NoCheck ==
    LET title       == PyStr(task_input)
        description == PyStr(desc_input)
        due_date    == PyStr(DateToString(date_input))
        ts          == add_task(tasks, title, description, due_date)
    IN /\ pc = "running"
       /\ Len(tasks) < MaxRows
       /\ tasks' = ts
       /\ rows' = update_task_list(ts)
       /\ selected' = -1
       /\ task_input' = <<>>
       /\ desc_input' = <<>>
       /\ fs' = save_tasks(ts, fs, DefaultFile)
       /\ mutated' = TRUE
       /\ lastOp' = Handler("add", 0, Len(tasks), TRUE, TRUE, FALSE)
       /\ err' = "none"
       /\ UNCHANGED <<snap, pc, date_input>>

\* ToDoApp.add_task, the slot of the Add Task button
AppAddTask ==
    LET title       == PyStr(task_input)
        description == PyStr(desc_input)
        due_date    == PyStr(DateToString(date_input))
        ts          == add_task(tasks, title, description, due_date)
    IN /\ pc = "running"
       /\ IF Truthy(title)
          THEN /\ Len(tasks) < MaxRows
               /\ tasks' = ts
               /\ rows' = update_task_list(ts)
               /\ selected' = -1
               /\ task_input' = <<>>
               /\ desc_input' = <<>>
               /\ fs' = save_tasks(ts, fs, DefaultFile)
               /\ mutated' = TRUE
               /\ lastOp' = Handler("add", 0, Len(tasks), TRUE, TRUE, FALSE)
          ELSE /\ lastOp' = Handler("add", 0, Len(tasks), FALSE, FALSE, TRUE)
               /\ UNCHANGED <<tasks, rows, selected, task_input, desc_input, fs, mutated>>
       /\ err' = "none"
       /\ UNCHANGED <<snap, pc, date_input>>

\* ToDoApp.mark_completed, the slot of the Mark Completed button
AppMarkCompleted ==
    LET task_index == selected
        r          == mark_completed(tasks, task_index)
    IN /\ pc = "running"
       /\ IF selected # -1
          THEN /\ tasks' = r.tasks
               /\ err' = r.err
               /\ rows' = update_task_list(r.tasks)
               /\ selected' = -1
               /\ fs' = save_tasks(r.tasks, fs, DefaultFile)
               /\ mutated' = TRUE
               /\ lastOp' = Handler("mark", task_index, Len(tasks), TRUE, TRUE, FALSE)
          ELSE /\ lastOp' = Handler("mark", 0, Len(tasks), FALSE, FALSE, FALSE)
               /\ UNCHANGED <<tasks, err, rows, selected, fs, mutated>>
       /\ UNCHANGED <<snap, pc, task_input, desc_input, date_input>>

\* a faulty delete_task slot: save_tasks is not called
AppDeleteTask_NoSave ==
    LET task_index == selected
        r          == delete_task(tasks, task_index)
    IN /\ pc = "running"
       /\ IF selected # -1
          THEN /\ tasks' = r.tasks
               /\ err' = r.err
               /\ rows' = update_task_list(r.tasks)
               /\ selected' = -1
               /\ mutated' = TRUE
               /\ lastOp' = Handler("delete", task_index, Len(tasks), TRUE, FALSE, FALSE)
               /\ UNCHANGED fs
          ELSE /\ lastOp' = Handler("delete", 0, Len(tasks), FALSE, FALSE, FALSE)
               /\ UNCHANGED <<tasks, err, rows, selected, fs, mutated>>
       /\ UNCHANGED <<snap, pc, task_input, desc_input, date_input>>

\* a faulty delete_task slot: update_task_list is not called, so the rows and
\* the selection stay as they were
AppDeleteTask_NoRefresh ==
    LET task_index == selected
        r          == delete_task(tasks, task_index)
    IN /\ pc = "running"
       /\ IF selected # -1
          THEN /\ tasks' = r.tasks
               /\ err' = r.err
               /\ fs' = save_tasks(r.tasks, fs, DefaultFile)
               /\ mutated' = TRUE
               /\ lastOp' = Handler("delete", task_index, Len(tasks), TRUE, TRUE, FALSE)
               /\ UNCHANGED <<rows, selected>>
          ELSE /\ lastOp' = Handler("delete", 0, Len(tasks), FALSE, FALSE, FALSE)
               /\ UNCHANGED <<tasks, err, rows, selected, fs, mutated>>
       /\ UNCHANGED <<snap, pc, task_input, desc_input, date_input>>

\* ToDoApp.delete_task, the slot of the Delete Task button
AppDeleteTask ==
    LET task_index == selected
        r          == delete_task(tasks, task_index)
    IN /\ pc = "running"
       /\ IF selected # -1
          THEN /\ tasks' = r.tasks
               /\ err' = r.err
               /\ rows' = update_task_list(r.tasks)
               /\ selected' = -1
               /\ fs' = save_tasks(r.tasks, fs, DefaultFile)
               /\ mutated' = TRUE
               /\ lastOp' = Handler("delete", task_index, Len(tasks), TRUE, TRUE, FALSE)
          ELSE /\ lastOp' = Handler("delete", 0, Len(tasks), FALSE, FALSE, FALSE)
               /\ UNCHANGED <<tasks, err, rows, selected, fs, mutated>>
       /\ UNCHANGED <<snap, pc, task_input, desc_input, date_input>>

Next == Startup \/ EditInput \/ SelectRow \/ AppAddTask \/ AppMarkCompleted \/ AppDeleteTask

Spec == Init /\ [][Next]_vars

--------------------------------------------------------------------------
(* Properties of the store *)

IsTrue(t) == t.d["completed"] = PyBool(TRUE)
IsFalse(t) == t.d["completed"] = PyBool(FALSE)

\* the last operation was mark or delete with an index outside [0, length)
OutOfRange(o, n) == o.op \in {"mark", "delete"} /\ (o.idx < 0 \/ o.idx >= n)

\* C1: after a load from a path that was saved to, the store holds the task
\* values that were saved there: the same number of tasks, in the same order,
\* each with the same keys and the same title, description, completed and
\* due_date (a null due_date included).
C1_RoundTrip ==
    (lastOp.op = "load" /\ lastOp.path \in DOMAIN snap) =>
        /\ err = "none"
        /\ Len(tasks) = Len(snap[lastOp.path])
        /\ \A i \in 1..Len(tasks) :
              /\ DOMAIN tasks[i].d = DOMAIN snap[lastOp.path][i]
              /\ \A k \in DOMAIN tasks[i].d : tasks[i].d[k] = snap[lastOp.path][i][k]

\* a list of two different tasks, one completed with text that JSON escapes,
\* one with a null due_date, has been saved and loaded back into an empty store
C1_Witness ==
    /\ lastOp.op = "load"
    /\ lastOp.path \in DOMAIN snap
    /\ lastOp.n = 0
    /\ Len(tasks) = 2
    /\ \E i, j \in 1..2 :
          /\ IsTrue(tasks[i])
          /\ tasks[i].d["description"] = PyStr(<<"\\", "\n">>)
          /\ tasks[i].d["due_date"] = PyStr(StoreDate)
          /\ IsFalse(tasks[j])
          /\ tasks[j].d["due_date"] = PyNone

\* C3: mark_completed and delete_task with an index outside [0, length),
\* negative ones and the length itself included, leave the task list as it
\* was and raise nothing.
C3_OutOfRangeNoOp ==
    [][OutOfRange(lastOp', Len(tasks)) => (tasks' = tasks /\ err' = "none")]_vars

\* delete_task(-1) has run on a list of two tasks
C3_Witness ==
    /\ lastOp.op = "delete"
    /\ lastOp.idx = -1
    /\ lastOp.n = 2
    /\ Len(tasks) = 2

\* C4: delete_task with an index in [0, length) makes the list one shorter,
\* removes the task at that index, and keeps the others in order: those before
\* it stay, those after it move down by one.
C4_DeleteShifts ==
    [][(lastOp'.op = "delete" /\ 0 <= lastOp'.idx /\ lastOp'.idx < Len(tasks)) =>
          /\ Len(tasks') = Len(tasks) - 1
          /\ tasks[lastOp'.idx + 1].oid \notin Oids(tasks')
          /\ \A j \in 1..lastOp'.idx : tasks'[j] = tasks[j]
          /\ \A j \in (lastOp'.idx + 2)..Len(tasks) : tasks'[j - 1] = tasks[j]
          /\ err' = "none"]_vars

\* delete_task(1) has run on a list of three tasks
C4_Witness ==
    /\ lastOp.op = "delete"
    /\ lastOp.idx = 1
    /\ lastOp.n = 3
    /\ Len(tasks) = 2

\* C5: mark_completed with an index in [0, length) sets that task's completed
\* flag, changes no other task, no other key of that task, and neither the
\* length nor the order; a second call with the same index changes nothing.
C5_MarkFrame ==
    [][(lastOp'.op = "mark" /\ 0 <= lastOp'.idx /\ lastOp'.idx < Len(tasks)) =>
          LET p == lastOp'.idx + 1
          IN /\ Len(tasks') = Len(tasks)
             /\ IsTrue(tasks'[p])
             /\ tasks'[p].oid = tasks[p].oid
             /\ DOMAIN tasks'[p].d = DOMAIN tasks[p].d
             /\ \A k \in DOMAIN tasks[p].d \ {"completed"} : tasks'[p].d[k] = tasks[p].d[k]
             /\ \A j \in 1..Len(tasks) : j # p => tasks'[j] = tasks[j]
             /\ mark_completed(tasks', lastOp'.idx).tasks = tasks'
             /\ err' = "none"]_vars

\* mark_completed(0) has run on a list of two tasks, the second one not completed
C5_Witness ==
    /\ lastOp.op = "mark"
    /\ lastOp.idx = 0
    /\ lastOp.n = 2
    /\ IsTrue(tasks[1])
    /\ IsFalse(tasks[2])

\* C6: load_tasks on a path where no file exists raises nothing and leaves the
\* store empty, whatever it held before.
C6_LoadMissing ==
    (lastOp.op = "load" /\ lastOp.path \notin DOMAIN fs) => (tasks = <<>> /\ err = "none")

\* a store of two tasks has loaded from a path with no file
C6_Witness ==
    /\ lastOp.op = "load"
    /\ lastOp.path \notin DOMAIN fs
    /\ lastOp.n = 2
    /\ tasks = <<>>

\* C9: in every step of add_task, mark_completed and delete_task, a task that
\* is new in the list has completed = false, and a task that was completed and
\* is still in the list is still completed.
C9_CompletedMonotone ==
    [][/\ \A j \in 1..Len(tasks') :
             tasks'[j].oid \notin Oids(tasks) => IsFalse(tasks'[j])
       /\ \A i \in 1..Len(tasks), j \in 1..Len(tasks') :
             (tasks'[j].oid = tasks[i].oid /\ IsTrue(tasks[i])) => IsTrue(tasks'[j])]_vars

\* mark_completed has run again on a task that was completed, beside one that is not
C9_Witness ==
    /\ lastOp.op = "mark"
    /\ lastOp.idx = 1
    /\ lastOp.n = 3
    /\ IsFalse(tasks[1])
    /\ IsTrue(tasks[2])
    /\ IsTrue(tasks[3])

--------------------------------------------------------------------------
(* Properties of the window *)

\* the last handler was a mark or delete click that went through to the store
Clicked(o) == o.op \in {"mark", "delete"} /\ o.called

\* C2: once a handler has changed the store, tasks.json exists and holds
\* exactly the dump of the task list in memory, between any two user actions.
C2_FileMatchesMemory ==
    (pc = "running" /\ mutated) =>
        /\ DefaultFile \in DOMAIN fs
        /\ fs[DefaultFile] = json_dump(Values(tasks))
        /\ json_load(fs[DefaultFile]) = Values(tasks)

\* a row has been deleted from a list of two loaded at startup
C2_Witness ==
    /\ pc = "running"
    /\ mutated
    /\ lastOp.op = "delete"
    /\ lastOp.called
    /\ lastOp.n = 2
    /\ Len(tasks) = 1

\* C7: a click on Add Task with an empty title shows the warning, calls
\* neither add_task nor save_tasks, and leaves the task list, the file and the
\* rows as they were, whatever the other two fields hold.
C7_EmptyTitleRejected ==
    [][(lastOp'.op = "add" /\ task_input = <<>>) =>
          /\ lastOp'.warned
          /\ ~lastOp'.called
          /\ ~lastOp'.saved
          /\ tasks' = tasks
          /\ fs' = fs
          /\ rows' = rows]_vars

\* Add Task has been clicked with an empty title, a description and another
\* date, before tasks.json exists
C7_Witness ==
    /\ lastOp.op = "add"
    /\ lastOp.warned
    /\ task_input = <<>>
    /\ desc_input # <<>>
    /\ date_input = OtherDay
    /\ fs = <<>>

\* the text the rendering contract asks for: position from 1, title, status,
\* description, and the due date or, when there is none, the placeholder
ContractText(i, d) ==
    IntToStr(i) \o <<".", " ">> \o PyToStr(d["title"]) \o <<" ", "-", " ">>
    \o (IF d["completed"] = PyBool(TRUE) THEN Done ELSE NotDone)
    \o <<"\n", " ">> \o PyToStr(d["description"]) \o DueLabel
    \o (IF "due_date" \notin DOMAIN d \/ d["due_date"] = PyNone
        THEN NoDueDate ELSE PyToStr(d["due_date"]))

\* C8: the rows show every task in order with its position from 1, title,
\* status, description and due date, and "No due date" for a task whose
\* due_date is null.
C8_Rendering ==
    pc = "running" =>
        /\ Len(rows) = Len(tasks)
        /\ \A i \in 1..Len(tasks) : rows[i].text = ContractText(i, tasks[i].d)

\* C10: the window shows one row per task, in order, and at most one selected
\* row, which is a row of the list; every index a mark or delete click hands
\* to the store is in [0, length); a click with no row selected calls no store
\* operation and saves nothing.
C10_Inv ==
    /\ pc = "running" =>
          /\ Len(rows) = Len(tasks)
          /\ \A i \in 1..Len(tasks) : rows[i] = ItemOf(i - 1, tasks[i].d)
          /\ selected \in (0 - 1)..(Len(tasks) - 1)
    /\ Clicked(lastOp) => (0 <= lastOp.idx /\ lastOp.idx < lastOp.n)

C10_RowsAndIndices ==
    /\ []C10_Inv
    /\ [][(lastOp'.op \in {"mark", "delete"} /\ selected = -1) =>
             /\ ~lastOp'.called
             /\ ~lastOp'.saved
             /\ tasks' = tasks
             /\ fs' = fs]_vars
    /\ [][Clicked(lastOp') => (0 <= lastOp'.idx /\ lastOp'.idx < Len(tasks))]_vars

\* the last of two rows has been selected and deleted
C10_Witness ==
    /\ lastOp.op = "delete"
    /\ lastOp.called
    /\ lastOp.idx = 1
    /\ lastOp.n = 2
    /\ Len(rows) = 1

==========================================================================
